---------------------------- MODULE Spec2Model ----------------------------
(***************************************************************************)
(* Model of the statistics derivation of the layer-2 page                  *)
(* (src/src/pages/layer-2.tsx, Layer2Page, lines 155-233).                 *)
(*                                                                         *)
(* The page keeps three display strings (tvl, percentChangeL2, averageFee) *)
(* and an effect, keyed on intl.locale, that starts two independent async  *)
(* functions, fetchL2Beat and fetchCryptoStats.  Each awaits one getData   *)
(* call and then runs to completion inside a try/catch.                    *)
(*                                                                         *)
(* JavaScript numbers are modelled as exact fractions plus NaN, +Infinity, *)
(* -Infinity; `undefined` is a value of its own.  Strings are TLA+ strings.*)
(* Number.prototype.toFixed and Intl.NumberFormat are modelled digit by    *)
(* digit for the value range the inputs produce (magnitudes below 1000, so *)
(* the compact notation never adds a suffix).                              *)
(***************************************************************************)
EXTENDS Integers, Sequences, FiniteSets, TLC

(***************************************************************************)
(* Bounds of the model.                                                    *)
(***************************************************************************)
MaxCycles == 2      \* effect runs (mount + locale changes) explored
MaxLen == 32        \* longest time series offered as a response
MaxFees == 3        \* longest fee list offered as a response

(***************************************************************************)
(* Program constants.                                                      *)
(***************************************************************************)
LookbackOffset == 31
FractionDigits == 2
MinimumSignificantDigits == 2
MaximumSignificantDigits == 3

LoadingText == "loading..."
ErrorText == "Error, please refresh."
ExcludedId == "hermez"

(***************************************************************************)
(* JavaScript values.                                                      *)
(***************************************************************************)
Fin(n, d) == [k |-> "fin", n |-> n, d |-> d]
NaN == [k |-> "nan", n |-> 0, d |-> 1]
Infinity(s) == [k |-> "inf", n |-> s, d |-> 1]
Undefined == [k |-> "undef", n |-> 0, d |-> 1]

Sign(i) == IF i > 0 THEN 1 ELSE IF i < 0 THEN 0 - 1 ELSE 0
Abs(i) == IF i < 0 THEN 0 - i ELSE i

\* ToNumber: undefined converts to NaN, a number is itself.
ToNumber(v) == IF v.k = "undef" THEN NaN ELSE v

\* x - y
NumSub(a, b) ==
  LET x == ToNumber(a)
      y == ToNumber(b)
  IN IF x.k = "nan" \/ y.k = "nan" THEN NaN
     ELSE IF x.k = "inf" /\ y.k = "inf"
          THEN IF x.n = y.n THEN NaN ELSE x
     ELSE IF x.k = "inf" THEN x
     ELSE IF y.k = "inf" THEN Infinity(0 - y.n)
     ELSE Fin(x.n * y.d - y.n * x.d, x.d * y.d)

\* x + y
NumAdd(a, b) ==
  LET x == ToNumber(a)
      y == ToNumber(b)
  IN IF x.k = "nan" \/ y.k = "nan" THEN NaN
     ELSE IF x.k = "inf" /\ y.k = "inf"
          THEN IF x.n = y.n THEN x ELSE NaN
     ELSE IF x.k = "inf" THEN x
     ELSE IF y.k = "inf" THEN y
     ELSE Fin(x.n * y.d + y.n * x.d, x.d * y.d)

\* a division that yields 0 for a zero divisor
NumDivZeroGuarded(a, b) ==
  LET x == ToNumber(a)
      y == ToNumber(b)
  IN IF x.k = "nan" \/ y.k = "nan" THEN NaN
     ELSE IF x.k = "inf"
          THEN IF y.k = "inf" THEN NaN
               ELSE Infinity(IF y.n < 0 THEN 0 - x.n ELSE x.n)
     ELSE IF y.k = "inf" THEN Fin(0, 1)
     ELSE IF y.n = 0 THEN Fin(0, 1)
     ELSE Fin(x.n * y.d * Sign(y.n), x.d * Abs(y.n))

\* x / y : a zero divisor gives NaN (0/0) or a signed infinity, never throws.
NumDiv(a, b) ==
  LET x == ToNumber(a)
      y == ToNumber(b)
  IN IF x.k = "nan" \/ y.k = "nan" THEN NaN
     ELSE IF x.k = "inf"
          THEN IF y.k = "inf" THEN NaN
               ELSE Infinity(IF y.n < 0 THEN 0 - x.n ELSE x.n)
     ELSE IF y.k = "inf" THEN Fin(0, 1)
     ELSE IF y.n = 0
          THEN IF x.n = 0 THEN NaN ELSE Infinity(Sign(x.n))
     ELSE Fin(x.n * y.d * Sign(y.n), x.d * Abs(y.n))

\* x * y
NumMul(a, b) ==
  LET x == ToNumber(a)
      y == ToNumber(b)
  IN IF x.k = "nan" \/ y.k = "nan" THEN NaN
     ELSE IF x.k = "inf" \/ y.k = "inf"
          THEN IF Sign(x.n) * Sign(y.n) = 0 THEN NaN
               ELSE Infinity(Sign(x.n) * Sign(y.n))
     ELSE Fin(x.n * y.n, x.d * y.d)

\* x > 0 : false for NaN
GreaterThanZero(a) ==
  LET x == ToNumber(a)
  IN x.k \in {"fin", "inf"} /\ x.n > 0

(***************************************************************************)
(* Decimal rendering.                                                      *)
(***************************************************************************)
Digit(i) == SubSeq("0123456789", i + 1, i + 1)

RECURSIVE IntStr(_)
IntStr(i) == IF i < 10 THEN Digit(i) ELSE IntStr(i \div 10) \o Digit(i % 10)

RECURSIVE Pow10(_)
Pow10(e) == IF e = 0 THEN 1 ELSE 10 * Pow10(e - 1)

\* i written with exactly w digits (leading zeros)
RECURSIVE Padded(_, _)
Padded(i, w) == IF w = 0 THEN "" ELSE Padded(i \div 10, w - 1) \o Digit(i % 10)

\* nearest integer to n/d for n >= 0, d > 0; a tie goes to the larger one
RoundHalfUp(n, d) == (2 * n + d) \div (2 * d)

\* Number.prototype.toFixed(FractionDigits)
ToFixed(a) ==
  LET x == ToNumber(a)
      scale == Pow10(FractionDigits)
      m == RoundHalfUp(Abs(x.n) * scale, x.d)
  IN IF x.k = "nan" THEN "NaN"
     ELSE IF x.k = "inf"
          THEN IF x.n < 0 THEN "-Infinity" ELSE "Infinity"
     ELSE (IF x.n < 0 THEN "-" ELSE "")
          \o IntStr(m \div scale) \o "." \o Padded(m % scale, FractionDigits)


(***************************************************************************)
(* Intl.NumberFormat(locale, {style: "currency", currency: "USD",          *)
(* notation: "compact", minimumSignificantDigits, maximumSignificantDigits})*)
(* for magnitudes below 1000.                                              *)
(***************************************************************************)
Locales == {"en", "de"}
DefaultLocale == "en"

DecimalSeparator(loc) == IF loc = "de" THEN "," ELSE "."

\* the currency pattern of the locale around a rendered magnitude
CurrencyPattern(loc, sign, body) ==
  IF loc = "de" THEN sign \o body \o " $" ELSE sign \o "$" \o body

\* 10^e <= n/d, for n > 0, d > 0 and any integer e
AtLeastPow10(n, d, e) ==
  IF e >= 0 THEN Pow10(e) * d <= n ELSE d <= n * Pow10(0 - e)

\* the decimal exponent of n/d, for 10^-4 <= n/d < 10^4
Exponent(n, d) ==
  CHOOSE e \in (0 - 4)..3 : AtLeastPow10(n, d, e) /\ ~AtLeastPow10(n, d, e + 1)

\* drop trailing zeros of the k-digit integer m down to the minimum digits
RECURSIVE StripZeros(_, _)
StripZeros(m, k) ==
  IF k > MinimumSignificantDigits /\ m % 10 = 0
  THEN StripZeros(m \div 10, k - 1)
  ELSE <<m, k>>

\* n/d > 0 rounded to at most MaximumSignificantDigits and at least
\* MinimumSignificantDigits significant digits
SignificantDigits(n, d, sep) ==
  IF n = 0 THEN "0" \o sep \o Padded(0, MinimumSignificantDigits - 1)
  ELSE
    LET e0 == Exponent(n, d)
        p == MaximumSignificantDigits - 1 - e0
        m0 == IF p >= 0 THEN RoundHalfUp(n * Pow10(p), d)
              ELSE RoundHalfUp(n, d * Pow10(0 - p))
        carry == m0 = Pow10(MaximumSignificantDigits)
        e == IF carry THEN e0 + 1 ELSE e0
        mk == StripZeros(IF carry THEN m0 \div 10 ELSE m0,
                         MaximumSignificantDigits)
        m == mk[1]
        k == mk[2]
        f == k - 1 - e
    IN IF f <= 0 THEN IntStr(m * Pow10(0 - f))
       ELSE IntStr(m \div Pow10(f)) \o sep \o Padded(m % Pow10(f), f)

\* format(value): the argument is converted with ToNumber first
NumberFormat(loc, v) ==
  LET x == ToNumber(v)
  IN IF x.k = "nan" THEN CurrencyPattern(loc, "", "NaN")
     ELSE IF x.k = "inf"
          THEN CurrencyPattern(loc, IF x.n < 0 THEN "-" ELSE "", "Infinity")
     ELSE CurrencyPattern(loc, IF x.n < 0 THEN "-" ELSE "",
            SignificantDigits(Abs(x.n), x.d, DecimalSeparator(loc)))

\* getLocaleForNumberFormat(intl.locale)
getLocaleForNumberFormat(loc) == loc

(***************************************************************************)
(* JavaScript arrays: 0-based index, `undefined` outside the range.        *)
(***************************************************************************)
InRange(arr, i) == i >= 0 /\ i < Len(arr)

\* arr[i] where the elements are numbers
ElementAt(arr, i) == IF InRange(arr, i) THEN arr[i + 1] ELSE Undefined

(***************************************************************************)
(* Responses of the two endpoints.                                         *)
(*                                                                         *)
(* A point of the time series is [timestamp, valueA, valueB]; a point that *)
(* lacks its values is the one-element array [timestamp].                  *)
(***************************************************************************)
PointValues == {Fin(0, 1), Fin(100, 1), Fin(150, 1)}

Point(v) == IF v.k = "undef" THEN <<"t">> ELSE <<"t", v, Fin(7, 1)>>

\* n points: the last j carry `hi`, the ones before carry `lo`
StepSeries(n, j, lo, hi) ==
  [i \in 1..n |-> IF i > n - j THEN Point(hi) ELSE Point(lo)]

SeriesLengths == {0, LookbackOffset - 1, LookbackOffset, MaxLen}
TailLengths == {LookbackOffset - 1, LookbackOffset}

SeriesPool ==
  { StepSeries(n, j, lo, hi) :
      <<n, j, lo, hi>> \in
        { q \in SeriesLengths \X TailLengths
                  \X (PointValues \cup {Undefined})
                  \X (PointValues \cup {Undefined}) : q[2] <= q[1] \/ q[1] = 0 } }

\* L2DataResponse: the body with layers2s.daily.data, or a body without
\* the layers2s member
L2Responses ==
  { [layers2s |-> TRUE, data |-> d] : d \in SeriesPool }
    \cup { [layers2s |-> FALSE, data |-> << >>] }

\* an entry of FeeDataResponse.data: `results` may be missing, and
\* results.feeTransferEth may be missing
FeeEntry(id, hasResults, fee) ==
  [id |-> id, results |-> hasResults, feeTransferEth |-> fee]

FeeEntries ==
  << FeeEntry("a", TRUE, Fin(1, 1)),
     FeeEntry("hermez", TRUE, Fin(100, 1)),
     FeeEntry("b", TRUE, Fin(3, 1)),
     FeeEntry("c", TRUE, Undefined),
     FeeEntry("d", FALSE, Undefined) >>

\* the entries of `all` at the positions in `keep`, in order
RECURSIVE Pick(_, _, _)
Pick(all, keep, i) ==
  IF i > Len(all) THEN << >>
  ELSE (IF i \in keep THEN <<all[i]>> ELSE << >>) \o Pick(all, keep, i + 1)

FeeLists ==
  { Pick(FeeEntries, keep, 1) :
      keep \in { K \in SUBSET (1..Len(FeeEntries)) : Cardinality(K) <= MaxFees } }

\* FeeDataResponse: the body with a data array, or a body without it
FeeResponses ==
  { [data |-> TRUE, entries |-> es] : es \in FeeLists }
    \cup { [data |-> FALSE, entries |-> << >>] }

(***************************************************************************)
(* The body of a try block runs to a normal end or to a throw; in both     *)
(* cases it has called the setters listed so far.                          *)
(*   tvl, pct, fee : the values passed to setTVL, setL2PercentChange,      *)
(*                   setAverageFee, in call order                          *)
(*   thrown        : "none", or the kind of the exception                  *)
(*   outOfRange    : an index outside the array was read                   *)
(***************************************************************************)
Outcome(t, p, f, thrown, oor) ==
  [tvl |-> t, pct |-> p, fee |-> f, thrown |-> thrown, outOfRange |-> oor]

\* the quotient taken over the new value instead of the old one
PercentageOverNew(new, old) ==
  NumMul(NumDiv(NumSub(new, old), new), Fin(100, 1))

\* ((new value - old value) / old value) * 100
Percentage(new, old) ==
  NumMul(NumDiv(NumSub(new, old), old), Fin(100, 1))

\* the "+" given to every value that is not negative
PercentTextNonNegative(percentage) ==
  IF ToNumber(percentage).k \in {"fin", "inf"} /\ ToNumber(percentage).n >= 0
  THEN "+" \o ToFixed(percentage) \o "%"
  ELSE ToFixed(percentage) \o "%"

PercentText(percentage) ==
  IF GreaterThanZero(percentage)
  THEN "+" \o ToFixed(percentage) \o "%"
  ELSE ToFixed(percentage) \o "%"

\* a try block that formats the first point's value as the TVL
L2BeatTryTvlOfFirst(loc, settled) ==
  IF settled.rejected
  THEN Outcome(<< >>, << >>, << >>, "NetworkError", FALSE)
  ELSE IF ~settled.value.layers2s
  THEN Outcome(<< >>, << >>, << >>, "TypeError", FALSE)
  ELSE
    LET dailyData == settled.value.data
        length == Len(dailyData)
        lastIdx == length - 1
        priorIdx == length - LookbackOffset
    IN IF ~InRange(dailyData, lastIdx)
       THEN Outcome(<< >>, << >>, << >>, "TypeError", TRUE)
       ELSE
         LET last == ElementAt(dailyData[lastIdx + 1], 1)
             TVL == NumberFormat(loc, ElementAt(dailyData[1], 1))
         IN IF ~InRange(dailyData, priorIdx)
            THEN Outcome(<<TVL>>, << >>, << >>, "TypeError", TRUE)
            ELSE
              LET prior == ElementAt(dailyData[priorIdx + 1], 1)
                  percentage == Percentage(last, prior)
              IN Outcome(<<TVL>>, <<PercentText(percentage)>>, << >>,
                         "none", FALSE)

\* the try block of fetchL2Beat after getData settled
L2BeatTry(loc, settled) ==
  IF settled.rejected
  THEN Outcome(<< >>, << >>, << >>, "NetworkError", FALSE)
  ELSE IF ~settled.value.layers2s
  THEN Outcome(<< >>, << >>, << >>, "TypeError", FALSE)
  ELSE
    LET dailyData == settled.value.data
        length == Len(dailyData)
        lastIdx == length - 1
        priorIdx == length - LookbackOffset
    IN IF ~InRange(dailyData, lastIdx)
       THEN \* dailyData[-1] is undefined; undefined[1] throws
            Outcome(<< >>, << >>, << >>, "TypeError", TRUE)
       ELSE
         LET last == ElementAt(dailyData[lastIdx + 1], 1)
             TVL == NumberFormat(loc, last)
         IN IF ~InRange(dailyData, priorIdx)
            THEN \* setTVL ran; dailyData[length - 31] is undefined
                 Outcome(<<TVL>>, << >>, << >>, "TypeError", TRUE)
            ELSE
              LET prior == ElementAt(dailyData[priorIdx + 1], 1)
                  percentage == Percentage(last, prior)
              IN Outcome(<<TVL>>, <<PercentText(percentage)>>, << >>,
                         "none", FALSE)

\* a catch block that sets every stat to the error text
fetchL2BeatErrorsEveryStat(loc, settled) ==
  LET t == L2BeatTry(loc, settled)
  IN IF t.thrown = "none"
     THEN t @@ [logged |-> "none", rejects |-> FALSE]
     ELSE [tvl |-> Append(t.tvl, ErrorText),
           pct |-> Append(t.pct, ErrorText),
           fee |-> Append(t.fee, ErrorText),
           thrown |-> t.thrown,
           outOfRange |-> t.outOfRange,
           logged |-> t.thrown,
           rejects |-> FALSE]

\* a catch block that only logs
fetchL2BeatOnlyLogs(loc, settled) ==
  LET t == L2BeatTry(loc, settled)
  IN IF t.thrown = "none"
     THEN t @@ [logged |-> "none", rejects |-> FALSE]
     ELSE t @@ [logged |-> t.thrown, rejects |-> FALSE]

\* a catch block that forgets setL2PercentChange
fetchL2BeatErrorsTvlOnly(loc, settled) ==
  LET t == L2BeatTry(loc, settled)
  IN IF t.thrown = "none"
     THEN t @@ [logged |-> "none", rejects |-> FALSE]
     ELSE [tvl |-> Append(t.tvl, ErrorText),
           pct |-> t.pct,
           fee |-> t.fee,
           thrown |-> t.thrown,
           outOfRange |-> t.outOfRange,
           logged |-> t.thrown,
           rejects |-> FALSE]

\* fetchL2Beat: the try block and its catch
fetchL2Beat(loc, settled) ==
  LET t == L2BeatTry(loc, settled)
  IN IF t.thrown = "none"
     THEN t @@ [logged |-> "none", rejects |-> FALSE]
     ELSE [tvl |-> Append(t.tvl, ErrorText),
           pct |-> Append(t.pct, ErrorText),
           fee |-> t.fee,
           thrown |-> t.thrown,
           outOfRange |-> t.outOfRange,
           logged |-> t.thrown,
           rejects |-> FALSE]

\* a filter that keeps every entry
FilterKeepsAll(es) == es

\* feeDataResponse.data.filter((l2) => l2.id !== "hermez")
RECURSIVE Filter(_)
Filter(es) ==
  IF es = << >> THEN << >>
  ELSE IF Head(es).id # ExcludedId THEN <<Head(es)>> \o Filter(Tail(es))
  ELSE Filter(Tail(es))

\* feeData.reduce((acc, curr) => (acc += curr.results.feeTransferEth), 0)
RECURSIVE Reduce(_, _)
Reduce(es, acc) ==
  IF es = << >> THEN acc
  ELSE Reduce(Tail(es), NumAdd(acc, Head(es).feeTransferEth))

\* the try block of fetchCryptoStats after getData settled
CryptoStatsTry(loc, settled) ==
  IF settled.rejected
  THEN Outcome(<< >>, << >>, << >>, "NetworkError", FALSE)
  ELSE IF ~settled.value.data
  THEN Outcome(<< >>, << >>, << >>, "TypeError", FALSE)
  ELSE
    LET feeData == Filter(settled.value.entries)
    IN IF \E i \in 1..Len(feeData) : ~feeData[i].results
       THEN \* curr.results is undefined; reading feeTransferEth throws
            Outcome(<< >>, << >>, << >>, "TypeError", FALSE)
       ELSE
         LET feeAverage == NumDiv(Reduce(feeData, Fin(0, 1)),
                                  Fin(Len(feeData), 1))
             intlFeeAverage == NumberFormat(loc, feeAverage)
         IN Outcome(<< >>, << >>, <<intlFeeAverage>>, "none", FALSE)

\* a catch block that sets every stat to the error text
fetchCryptoStatsErrorsEveryStat(loc, settled) ==
  LET t == CryptoStatsTry(loc, settled)
  IN IF t.thrown = "none"
     THEN t @@ [logged |-> "none", rejects |-> FALSE]
     ELSE [tvl |-> Append(t.tvl, ErrorText),
           pct |-> Append(t.pct, ErrorText),
           fee |-> Append(t.fee, ErrorText),
           thrown |-> t.thrown,
           outOfRange |-> t.outOfRange,
           logged |-> t.thrown,
           rejects |-> FALSE]

\* fetchCryptoStats: the try block and its catch
fetchCryptoStats(loc, settled) ==
  LET t == CryptoStatsTry(loc, settled)
  IN IF t.thrown = "none"
     THEN t @@ [logged |-> "none", rejects |-> FALSE]
     ELSE [tvl |-> t.tvl,
           pct |-> t.pct,
           fee |-> Append(t.fee, ErrorText),
           thrown |-> t.thrown,
           outOfRange |-> t.outOfRange,
           logged |-> t.thrown,
           rejects |-> FALSE]


(***************************************************************************)
(* State.                                                                  *)
(*   locale          : intl.locale                                         *)
(*   cycles          : the effect runs so far; each holds the locale it    *)
(*                     captured and the state of its two awaits            *)
(*   tvl, percentChangeL2, averageFee : the three useState cells           *)
(*   writer          : per cell, the cycle whose setter call wrote it last *)
(*                     (0: still the useState initial value)               *)
(*   lastRun         : what the step that led here did: the async function *)
(*                     that resumed, its cycle, what getData settled with, *)
(*                     and the setter calls, log and exit of the function  *)
(***************************************************************************)
VARIABLES locale, cycles, tvl, percentChangeL2, averageFee, writer, lastRun

vars == <<locale, cycles, tvl, percentChangeL2, averageFee, writer, lastRun>>

Resolved(v) == [rejected |-> FALSE, value |-> v]
Rejected == [rejected |-> TRUE, value |-> [layers2s |-> FALSE, data |-> << >>]]
RejectedFee == [rejected |-> TRUE, value |-> [data |-> FALSE, entries |-> << >>]]

NoRun ==
  [fn |-> "none", cycle |-> 0, settled |-> Rejected,
   tvl |-> << >>, pct |-> << >>, fee |-> << >>,
   thrown |-> "none", outOfRange |-> FALSE, logged |-> "none",
   rejects |-> FALSE]

\* the two async functions, tabulated over what getData can settle with
L2BeatRuns ==
  [loc \in Locales, settled \in {Resolved(v) : v \in L2Responses} \cup {Rejected}
     |-> fetchL2Beat(loc, settled)]

CryptoStatsRuns ==
  [loc \in Locales, settled \in {Resolved(v) : v \in FeeResponses} \cup {RejectedFee}
     |-> fetchCryptoStats(loc, settled)]

Last(q) == q[Len(q)]

\* useState("loading...") three times; the effect has not run yet
Init ==
  /\ locale = DefaultLocale
  /\ cycles = << >>
  /\ tvl = LoadingText
  /\ percentChangeL2 = LoadingText
  /\ averageFee = LoadingText
  /\ writer = [tvl |-> 0, pct |-> 0, fee |-> 0]
  /\ lastRun = NoRun

\* an effect that puts the placeholders back before fetching
RunEffectResets(loc) ==
  /\ cycles' = Append(cycles,
                 [localeForStatsBoxNumbers |-> getLocaleForNumberFormat(loc),
                  l2beat |-> "pending", cryptoStats |-> "pending",
                  getDataCalls |-> [l2beat |-> 1, cryptoStats |-> 1]])
  /\ lastRun' = NoRun
  /\ tvl' = LoadingText
  /\ percentChangeL2' = LoadingText
  /\ averageFee' = LoadingText
  /\ UNCHANGED writer

\* the effect body: capture the locale, call fetchL2Beat() and
\* fetchCryptoStats(); each runs up to its await and returns
RunEffect(loc) ==
  /\ cycles' = Append(cycles,
                 [localeForStatsBoxNumbers |-> getLocaleForNumberFormat(loc),
                  l2beat |-> "pending", cryptoStats |-> "pending",
                  getDataCalls |-> [l2beat |-> 1, cryptoStats |-> 1]])
  /\ lastRun' = NoRun
  /\ UNCHANGED <<tvl, percentChangeL2, averageFee, writer>>

\* first render: the effect runs once
Mount ==
  /\ cycles = << >>
  /\ RunEffect(locale)
  /\ UNCHANGED locale

\* intl.locale changes: the dependency [intl.locale] differs, the effect
\* runs again; nothing cancels the earlier run's pending awaits
LocaleChange(loc) ==
  /\ cycles # << >>
  /\ Len(cycles) < MaxCycles
  /\ loc # locale
  /\ locale' = loc
  /\ RunEffect(loc)

\* a function that calls getData once more after a throw
AfterRunRetries(cy, fn, r) ==
  IF r.thrown # "none" /\ cy.getDataCalls[fn] < 2
  THEN [cy EXCEPT !.getDataCalls[fn] = @ + 1]
  ELSE [cy EXCEPT ![fn] = "settled"]

\* the async function `fn` of cycle cy ran to its end: after the try or the
\* catch block it returns; there is no loop and no second getData call
AfterRun(cy, fn, r) == [cy EXCEPT ![fn] = "settled"]

\* the three useState cells
Cells == [tvl |-> tvl, pct |-> percentChangeL2, fee |-> averageFee]

\* the cells after the setter calls of run r: a cell keeps its value unless
\* its setter was called, and then holds the last value passed
AfterSetters(cells, r) ==
  [tvl |-> IF r.tvl = << >> THEN cells.tvl ELSE Last(r.tvl),
   pct |-> IF r.pct = << >> THEN cells.pct ELSE Last(r.pct),
   fee |-> IF r.fee = << >> THEN cells.fee ELSE Last(r.fee)]

\* the setter calls of a resumed function, applied in call order
ApplyRun(c, fn, settled, r) ==
  /\ tvl' = AfterSetters(Cells, r).tvl
  /\ percentChangeL2' = AfterSetters(Cells, r).pct
  /\ averageFee' = AfterSetters(Cells, r).fee
  /\ writer' = [tvl |-> IF r.tvl = << >> THEN writer.tvl ELSE c,
                pct |-> IF r.pct = << >> THEN writer.pct ELSE c,
                fee |-> IF r.fee = << >> THEN writer.fee ELSE c]
  /\ lastRun' = [fn |-> fn, cycle |-> c, settled |-> settled] @@ r

\* getData of cycle c's fetchL2Beat settles and the function resumes
L2BeatSettles(c, settled) ==
  /\ c \in 1..Len(cycles)
  /\ cycles[c].l2beat = "pending"
  /\ cycles' = [cycles EXCEPT ![c] = AfterRun(@, "l2beat",
                   L2BeatRuns[cycles[c].localeForStatsBoxNumbers, settled])]
  /\ ApplyRun(c, "fetchL2Beat", settled,
              L2BeatRuns[cycles[c].localeForStatsBoxNumbers, settled])
  /\ UNCHANGED locale

L2BeatResolves == \E c \in 1..MaxCycles, v \in L2Responses :
                    L2BeatSettles(c, Resolved(v))

L2BeatRejects == \E c \in 1..MaxCycles : L2BeatSettles(c, Rejected)

\* getData of cycle c's fetchCryptoStats settles and the function resumes
CryptoStatsSettles(c, settled) ==
  /\ c \in 1..Len(cycles)
  /\ cycles[c].cryptoStats = "pending"
  /\ cycles' = [cycles EXCEPT ![c] = AfterRun(@, "cryptoStats",
                   CryptoStatsRuns[cycles[c].localeForStatsBoxNumbers, settled])]
  /\ ApplyRun(c, "fetchCryptoStats", settled,
              CryptoStatsRuns[cycles[c].localeForStatsBoxNumbers, settled])
  /\ UNCHANGED locale

CryptoStatsResolves == \E c \in 1..MaxCycles, v \in FeeResponses :
                         CryptoStatsSettles(c, Resolved(v))

CryptoStatsRejects == \E c \in 1..MaxCycles : CryptoStatsSettles(c, RejectedFee)

Next ==
  \/ Mount
  \/ \E loc \in Locales : LocaleChange(loc)
  \/ L2BeatResolves
  \/ L2BeatRejects
  \/ CryptoStatsResolves
  \/ CryptoStatsRejects

Spec == Init /\ [][Next]_vars

\* the effect runs after the first render; whether a fetch settles and
\* whether the locale changes is up to the environment
FairSpec == Spec /\ WF_vars(Mount)

(***************************************************************************)
(* What the last step's function was given, read from lastRun.             *)
(***************************************************************************)
RanL2Beat == lastRun.fn = "fetchL2Beat"
RanCryptoStats == lastRun.fn = "fetchCryptoStats"

\* getData resolved with a body that has the expected outer members
GotSeries == RanL2Beat /\ ~lastRun.settled.rejected /\ lastRun.settled.value.layers2s
GotEntries == RanCryptoStats /\ ~lastRun.settled.rejected /\ lastRun.settled.value.data

GivenSeries == lastRun.settled.value.data
GivenEntries == lastRun.settled.value.entries

\* the locale the resumed function formats with
RunLocale == cycles[lastRun.cycle].localeForStatsBoxNumbers

\* a point with its two numeric values
WholePoint(pt) == Len(pt) = 3

\* the numeric value (second element) of the i-th point counted from 1
ValueOf(i) == GivenSeries[i][2]

\* the series has a point LookbackOffset - 1 places before its last, and both
\* that point and the last one carry values
HasLookback ==
  /\ GotSeries
  /\ Len(GivenSeries) >= LookbackOffset
  /\ WholePoint(GivenSeries[Len(GivenSeries)])
  /\ WholePoint(GivenSeries[Len(GivenSeries) - (LookbackOffset - 1)])

NewValue == ValueOf(Len(GivenSeries)).n
OldValue == ValueOf(Len(GivenSeries) - (LookbackOffset - 1)).n

\* every character of s is a digit, a separator, a sign or a unit
NumericChars == {"0", "1", "2", "3", "4", "5", "6", "7", "8", "9",
                 ".", ",", "$", " ", "+", "-", "%"}
NumericText(s) ==
  Len(s) > 0 /\ \A i \in 1..Len(s) : SubSeq(s, i, i) \in NumericChars

StartsWith(s, c) == Len(s) > 0 /\ SubSeq(s, 1, 1) = c

AllSettled ==
  /\ cycles # << >>
  /\ \A c \in 1..Len(cycles) :
       cycles[c].l2beat = "settled" /\ cycles[c].cryptoStats = "settled"

\* the values the last step passed to the setters of the cells it wrote
Written == {lastRun.tvl, lastRun.pct, lastRun.fee} \ { << >> }

(***************************************************************************)
(* C1: a superseded cycle never writes a stat: every setter call is made   *)
(* by the most recently issued cycle.                                      *)
(***************************************************************************)
C1_OnlyLatestCycleWrites ==
  (lastRun.fn # "none" /\ Written # {}) => lastRun.cycle = Len(cycles)

(***************************************************************************)
(* C2: once every issued fetch has settled, each of the three stats holds  *)
(* the value written by the latest cycle (so formatted with the latest     *)
(* locale), whatever the completion order.                                 *)
(***************************************************************************)
C2_LatestCycleWins ==
  AllSettled =>
    /\ writer.tvl = Len(cycles)
    /\ writer.pct = Len(cycles)
    /\ writer.fee = Len(cycles)

(***************************************************************************)
(* C3: a stat is written with the error text iff its function threw;       *)
(* otherwise what is written is a formatted numeric string.                *)
(***************************************************************************)
C3_ErrorIffThrows ==
  \A w \in Written :
    /\ (Last(w) = ErrorText) <=> (lastRun.thrown # "none")
    /\ (lastRun.thrown = "none") => NumericText(Last(w))

(***************************************************************************)
(* C4: for a series of fewer than 31 points the derivation fails, reads no *)
(* element outside the series, and leaves both tvl and percentChange as    *)
(* the error text.                                                         *)
(***************************************************************************)
C4_ShortSeriesFailsCleanly ==
  (GotSeries /\ Len(GivenSeries) < LookbackOffset) =>
    /\ lastRun.thrown # "none"
    /\ ~lastRun.outOfRange
    /\ tvl = ErrorText
    /\ percentChangeL2 = ErrorText

(***************************************************************************)
(* C5: when no entry is left after excluding "hermez", the fee derivation  *)
(* fails and averageFee is the error text; a NaN is never displayed.       *)
(***************************************************************************)
C5_EmptyFeeListIsError ==
  (GotEntries /\ \A i \in 1..Len(GivenEntries) : GivenEntries[i].id = ExcludedId)
    => (lastRun.thrown # "none" /\ averageFee = ErrorText)

(***************************************************************************)
(* C6: within one cycle each stat is written exactly once; tvl is never    *)
(* written with a formatted value and then with the error text.            *)
(***************************************************************************)
C6_OneWritePerCycle ==
  /\ RanL2Beat => (Len(lastRun.tvl) = 1 /\ Len(lastRun.pct) = 1)
  /\ RanCryptoStats => Len(lastRun.fee) = 1

(***************************************************************************)
(* C7: for a series of at least 31 points whose value 30 points before the *)
(* last is not zero, percentChange is ((last - prior) / prior) * 100 with  *)
(* two decimals and a trailing "%"; 100 then 150 gives "+50.00%".          *)
(***************************************************************************)
\* |new - old| / old * 100 in hundredths, rounded to the nearest
Hundredths(new, old) ==
  (2 * 100 * 100 * Abs(new - old) + Abs(old)) \div (2 * Abs(old))

ExpectedPercentText(new, old) ==
  LET h == Hundredths(new, old)
      s == Sign(new - old) * Sign(old)
  IN (IF s > 0 THEN "+" ELSE IF s < 0 THEN "-" ELSE "")
     \o IntStr(h \div 100) \o "." \o Digit((h \div 10) % 10) \o Digit(h % 10)
     \o "%"

C7_PercentChangeValue ==
  (HasLookback /\ OldValue # 0) =>
    /\ percentChangeL2 = ExpectedPercentText(NewValue, OldValue)
    /\ (NewValue = 150 /\ OldValue = 100) => percentChangeL2 = "+50.00%"

C7_Witness ==
  /\ HasLookback
  /\ Len(GivenSeries) > LookbackOffset
  /\ NewValue = 150
  /\ OldValue = 100
  /\ percentChangeL2 = "+50.00%"

(***************************************************************************)
(* C8: percentChange starts with "+" iff the computed value is strictly    *)
(* positive; zero has no "+", a negative value has its "-" and no "+".     *)
(***************************************************************************)
\* the sign of (new - old) / old: 1, -1, 0, or 2 when it is not a number
QuotientSign ==
  IF OldValue = 0
  THEN IF NewValue = 0 THEN 2 ELSE Sign(NewValue)
  ELSE Sign(NewValue - OldValue) * Sign(OldValue)

C8_PlusIffPositive ==
  HasLookback =>
    /\ StartsWith(percentChangeL2, "+") <=> (QuotientSign = 1)
    /\ (QuotientSign = 0 - 1) => StartsWith(percentChangeL2, "-")
    /\ (QuotientSign = 0) => percentChangeL2 = "0.00%"

C8_Witness ==
  /\ HasLookback
  /\ QuotientSign = 0
  /\ NewValue = 100
  /\ percentChangeL2 = "0.00%"

(***************************************************************************)
(* C9: the average fee is the arithmetic mean of the fees of exactly the   *)
(* entries whose id is not "hermez"; [{a,1},{hermez,100},{b,3}] gives 2.   *)
(***************************************************************************)
KeptPositions == {i \in 1..Len(GivenEntries) : GivenEntries[i].id # "hermez"}

RECURSIVE FeeSum(_)
FeeSum(P) ==
  IF P = {} THEN 0
  ELSE LET i == CHOOSE x \in P : TRUE
       IN GivenEntries[i].feeTransferEth.n + FeeSum(P \ {i})

\* every kept entry has results.feeTransferEth, and there is one at least
FeesComplete ==
  /\ GotEntries
  /\ KeptPositions # {}
  /\ \A i \in KeptPositions :
       GivenEntries[i].results /\ GivenEntries[i].feeTransferEth.k = "fin"

C9_AverageExcludesHermez ==
  FeesComplete =>
    /\ averageFee = NumberFormat(RunLocale,
                      Fin(FeeSum(KeptPositions), Cardinality(KeptPositions)))
    /\ ( /\ Len(GivenEntries) = 3
         /\ FeeSum(KeptPositions) = 4
         /\ Cardinality(KeptPositions) = 2 )
       => averageFee \in {"$2.0", "2,0 $"}

C9_Witness ==
  /\ FeesComplete
  /\ [i \in 1..Len(GivenEntries) |-> GivenEntries[i].id] = <<"a", "hermez", "b">>
  /\ averageFee = "$2.0"

(***************************************************************************)
(* C10: a rejection, a malformed response or an empty series sets both tvl *)
(* and percentChange to the error text and logs the cause; a failure of    *)
(* the fee derivation sets averageFee to the error text; neither async     *)
(* function rejects.                                                       *)
(***************************************************************************)
MalformedSeries ==
  /\ RanL2Beat /\ ~lastRun.settled.rejected
  /\ \/ ~lastRun.settled.value.layers2s
     \/ \E i \in 1..Len(GivenSeries) : ~WholePoint(GivenSeries[i])

MalformedEntries ==
  /\ RanCryptoStats /\ ~lastRun.settled.rejected
  /\ \/ ~lastRun.settled.value.data
     \/ \E i \in KeptPositions :
          ~GivenEntries[i].results \/ GivenEntries[i].feeTransferEth.k # "fin"

C10_FailuresBecomeErrorText ==
  /\ ( RanL2Beat /\ ( \/ lastRun.settled.rejected
                      \/ MalformedSeries
                      \/ (GotSeries /\ GivenSeries = << >>) ) )
       => (tvl = ErrorText /\ percentChangeL2 = ErrorText
           /\ lastRun.logged # "none")
  /\ ( RanCryptoStats /\ (lastRun.settled.rejected \/ MalformedEntries) )
       => averageFee = ErrorText
  /\ ~lastRun.rejects

(***************************************************************************)
(* C11: each derivation writes only its own cells, on success and on       *)
(* failure: a fetchL2Beat step leaves averageFee alone, a fetchCryptoStats *)
(* step leaves tvl and percentChange alone.                                *)
(***************************************************************************)
C11_OwnSlotsOnly ==
  [][ /\ (cycles' # cycles /\ lastRun'.fn = "fetchL2Beat")
         => /\ averageFee' = averageFee
            /\ writer'.fee = writer.fee
            /\ lastRun'.fee = << >>
      /\ (cycles' # cycles /\ lastRun'.fn = "fetchCryptoStats")
         => /\ tvl' = tvl
            /\ percentChangeL2' = percentChangeL2
            /\ writer'.tvl = writer.tvl
            /\ writer'.pct = writer.pct
            /\ lastRun'.tvl = << >>
            /\ lastRun'.pct = << >> ]_vars

\* fetchL2Beat failed after the fee was displayed, and the fee is still there
C11_Witness ==
  /\ RanL2Beat
  /\ lastRun.thrown # "none"
  /\ tvl = ErrorText
  /\ writer.fee # 0
  /\ averageFee = "$2.0"

(***************************************************************************)
(* C12: the mount and every locale change each start exactly one cycle,    *)
(* which calls getData exactly once per endpoint; nothing is retried, and  *)
(* a throw ends that derivation for the cycle with the error text.         *)
(***************************************************************************)
OneCallEach(cy) == cy.getDataCalls = [l2beat |-> 1, cryptoStats |-> 1]

C12_OneCyclePerTrigger ==
  [][ /\ (locale' # locale) => Len(cycles') = Len(cycles) + 1
      /\ (cycles = << >> /\ cycles' # cycles) => Len(cycles') = 1
      /\ (Len(cycles') # Len(cycles))
         => /\ Len(cycles') = Len(cycles) + 1
            /\ SubSeq(cycles', 1, Len(cycles)) = cycles
            /\ cycles'[Len(cycles')].l2beat = "pending"
            /\ cycles'[Len(cycles')].cryptoStats = "pending"
            /\ (cycles # << >>) => locale' # locale
      /\ \A c \in 1..Len(cycles') : OneCallEach(cycles'[c])
      /\ (cycles' # cycles /\ lastRun'.fn = "fetchL2Beat"
            /\ lastRun'.thrown # "none")
         => /\ cycles'[lastRun'.cycle].l2beat = "settled"
            /\ tvl' = ErrorText
            /\ percentChangeL2' = ErrorText
      /\ (cycles' # cycles /\ lastRun'.fn = "fetchCryptoStats"
            /\ lastRun'.thrown # "none")
         => /\ cycles'[lastRun'.cycle].cryptoStats = "settled"
            /\ averageFee' = ErrorText ]_vars

\* the second cycle's l2beat request was rejected once and is over
C12_Witness ==
  /\ Len(cycles) = 2
  /\ RanL2Beat
  /\ lastRun.cycle = 2
  /\ lastRun.settled.rejected
  /\ cycles[2].l2beat = "settled"
  /\ OneCallEach(cycles[2])
  /\ tvl = ErrorText

(***************************************************************************)
(* C13: on a successful derivation tvl is the formatting of the second     *)
(* element of the LAST point, and that value is the new value of the       *)
(* percent change of the same run.                                         *)
(***************************************************************************)
C13_TvlIsLastValue ==
  HasLookback =>
    /\ lastRun.tvl = <<NumberFormat(RunLocale, Fin(NewValue, 1))>>
    /\ tvl = NumberFormat(RunLocale, GivenSeries[Len(GivenSeries)][2])
    /\ (NewValue = 150) => tvl \in {"$150", "150 $"}
    /\ (OldValue # 0) =>
         lastRun.pct = <<ExpectedPercentText(NewValue, OldValue)>>

\* the series steps from 100 to 150 and the page shows the 150
C13_Witness ==
  /\ HasLookback
  /\ NewValue = 150
  /\ OldValue = 100
  /\ ValueOf(1) = Fin(100, 1)
  /\ tvl = "$150"
  /\ percentChangeL2 = "+50.00%"

(***************************************************************************)
(* C14: within one cycle the two derivations are order-independent: for    *)
(* fixed responses the three stats end the same whichever fetch settles    *)
(* first.                                                                  *)
(***************************************************************************)
L2Settlements == {Resolved(v) : v \in L2Responses} \cup {Rejected}
FeeSettlements == {Resolved(v) : v \in FeeResponses} \cup {RejectedFee}

\* what each function can do in a cycle that captured locale loc
L2BeatOutcomes == [loc \in Locales |-> {L2BeatRuns[loc, x] : x \in L2Settlements}]
CryptoStatsOutcomes ==
  [loc \in Locales |-> {CryptoStatsRuns[loc, x] : x \in FeeSettlements}]

InitialCells == [tvl |-> LoadingText, pct |-> LoadingText, fee |-> LoadingText]

\* the runs the other function of the single cycle can have made
OtherOutcomes ==
  IF RanL2Beat THEN CryptoStatsOutcomes[cycles[1].localeForStatsBoxNumbers]
  ELSE L2BeatOutcomes[cycles[1].localeForStatsBoxNumbers]

BothPending(c) == cycles[c].l2beat = "pending" /\ cycles[c].cryptoStats = "pending"

C14_OrderIndependent ==
  \* from any state with both fetches of a cycle pending, the two orders
  \* of settling them lead to the same cells
  /\ \A c \in 1..Len(cycles) :
       BothPending(c) =>
         \A a \in L2BeatOutcomes[cycles[c].localeForStatsBoxNumbers],
            b \in CryptoStatsOutcomes[cycles[c].localeForStatsBoxNumbers] :
           AfterSetters(AfterSetters(Cells, a), b)
             = AfterSetters(AfterSetters(Cells, b), a)
  \* the cells of a finished single cycle are those of the other order too
  /\ (Len(cycles) = 1 /\ AllSettled) =>
       /\ \E o \in OtherOutcomes :
            Cells = AfterSetters(AfterSetters(InitialCells, o), lastRun)
       /\ \A o \in OtherOutcomes :
            (Cells = AfterSetters(AfterSetters(InitialCells, o), lastRun))
              => (Cells = AfterSetters(AfterSetters(InitialCells, lastRun), o))

\* the fee settled first and was displayed, then fetchL2Beat failed
C14_Witness ==
  /\ Len(cycles) = 1
  /\ AllSettled
  /\ RanL2Beat
  /\ lastRun.thrown # "none"
  /\ tvl = ErrorText
  /\ percentChangeL2 = ErrorText
  /\ averageFee = "$3.0"

(***************************************************************************)
(* C15: if every issued fetch eventually settles, every stat eventually    *)
(* leaves "loading..."; and as there is no timeout, a stat none of whose   *)
(* fetches has settled is still "loading...".                              *)
(***************************************************************************)
NoneSettled(fn) == \A c \in 1..Len(cycles) : cycles[c][fn] = "pending"

\* every getData call issued so far has settled
NothingPending ==
  \A c \in 1..Len(cycles) :
    cycles[c].l2beat = "settled" /\ cycles[c].cryptoStats = "settled"

C16_TvlAndPercentCoupled ==
  /\ (tvl = LoadingText) <=> (percentChangeL2 = LoadingText)
  /\ (tvl = ErrorText) <=> (percentChangeL2 = ErrorText)
  /\ writer.tvl = writer.pct

\* the run that wrote a formatted tvl and then failed left both as errors
C16_Witness ==
  /\ RanL2Beat
  /\ Len(lastRun.tvl) = 2
  /\ lastRun.pct = <<ErrorText>>
  /\ tvl = ErrorText
  /\ percentChangeL2 = ErrorText

(***************************************************************************)
(* C17: "loading..." is only the mount value: a stat that has been written *)
(* never shows it again, and a locale change leaves the previous cycle's   *)
(* value on display while the new fetches are out.                         *)
(***************************************************************************)
C17_NeverBackToLoading ==
  [][ /\ (tvl # LoadingText) => (tvl' # LoadingText)
      /\ (percentChangeL2 # LoadingText) => (percentChangeL2' # LoadingText)
      /\ (averageFee # LoadingText) => (averageFee' # LoadingText)
      /\ (Len(cycles') # Len(cycles)) => Cells' = Cells ]_vars

\* the second cycle is in flight and the first cycle's values are shown
C17_Witness ==
  /\ Len(cycles) = 2
  /\ BothPending(2)
  /\ writer = [tvl |-> 1, pct |-> 1, fee |-> 1]
  /\ tvl = "$150"
  /\ percentChangeL2 = "+50.00%"
  /\ averageFee = "$2.0"

(***************************************************************************)
(* C18: for a series of at least 31 points whose value 30 points before    *)
(* the last is 0, the error path is not taken: tvl is the formatted last   *)
(* value and percentChange is built from a non-finite quotient.            *)
(***************************************************************************)
C18_ZeroPriorIsNotAnError ==
  (HasLookback /\ OldValue = 0) =>
    /\ lastRun.thrown = "none"
    /\ lastRun.logged = "none"
    /\ tvl = NumberFormat(RunLocale, Fin(NewValue, 1))
    /\ percentChangeL2 # ErrorText
    /\ percentChangeL2 = (IF NewValue > 0 THEN "+Infinity%"
                          ELSE IF NewValue < 0 THEN "-Infinity%"
                          ELSE "NaN%")

\* 0 thirty points before 100: the page shows "+Infinity%"
C18_Witness ==
  /\ HasLookback
  /\ OldValue = 0
  /\ NewValue = 100
  /\ tvl = "$100"
  /\ percentChangeL2 = "+Infinity%"

============================================================================
